---- MODULE Spec2Model ----
(***************************************************************************)
(* A state-machine model of the xiaozhi-go voice-assistant client:         *)
(*   - the half-duplex audio stream controller (audio/controller.go),      *)
(*   - the session client (core: Connect, Close, StartListening,           *)
(*     StopListening, SendStartListening, setState, the inbound message    *)
(*     pump, the audio-send pump and the message handlers).                *)
(* Every step is one critical section or one channel/transport operation   *)
(* of the Go code; steps of different goroutines interleave freely.        *)
(***************************************************************************)
EXTENDS Integers, Sequences, FiniteSets, TLC

\* ------------------------------------------------------------------ bounds
\* goroutines that call the controller directly (controller harness)
NumCtrlCallers == 2
\* exported-method calls made plus inbound messages received over a run
MaxEvents == 3
\* the same, in a run with one caller goroutine and one connection
MaxSoloEvents == 4
\* goroutines that call the client's exported methods
NumCallers == 1
\* goroutines that take the client's locks (lock harness)
NumLockTasks == 3
\* Connect calls that get as far as starting their pump and sender
MaxSessions == 1
\* sessions a client may end up running at once under the duo schedule
MaxDuoSessions == 2
\* Connect calls made and messages received in a run under the duo schedule
MaxDuoEvents == 5
\* NextDelay and Reset calls made on the backoff policy over a run
MaxBackoffCalls == 9
\* exported-method calls made in a run that only streams audio
MaxStreamEvents == 102

\* ------------------------------------------------------- program constants
\* make(chan []byte, 100)
AudioSendChanCap == 100
\* msgChan: make(chan interfaces.Message, 100)
MsgChanCap == 100
\* currentDelay: 1 * time.Second
BackoffFloor == 1
\* maxDelay: 30 * time.Second
BackoffCeiling == 30

CtrlCallers == 1..NumCtrlCallers
LockTasks == 1..NumLockTasks
Callers == {<<"caller", i>> : i \in 1..NumCallers}
TaskSlots == IF MaxSessions > MaxDuoSessions THEN MaxSessions ELSE MaxDuoSessions
Pumps == {<<"pump", i>> : i \in 1..TaskSlots}
Senders == {<<"sender", i>> : i \in 1..TaskSlots}
Threads == Callers \cup Pumps \cup Senders

DeviceStates == {"unknown", "connecting", "idle", "listening", "speaking", "disconnected"}
SessionIds == {"abc"}
\* inbound text messages, by type and state field
InboundKinds == {"hello", "tts_start", "tts_stop", "abort"}
\* inbound text messages whose handling touches no field of the client: a
\* zero-length payload, a JSON object without a string type, a type that is
\* not routed, a listen, tts, stt, llm or error message lacking a field
\* its handler checks for, and an error message with its message and
\* session_id
InertKinds == {"empty", "no_type", "unknown_type", "missing_field", "error"}
\* where a startAudioCapture goroutine can be while it handles a recorded
\* frame: at its GetState, at its IsSending, at SendAudio's IsSending, and at
\* SendAudio's enqueue; the others wait in the select
CapPos == {"c_state", "c_sending", "c_sendAudio", "c_enqueue"}

VARIABLES
    isSending,      \* controller.isSending
    isReceiving,    \* controller.isReceiving
    mu,             \* controller.mu: 0 when free, else the caller holding it
    cpc,            \* controller harness: position of each caller
    cop,            \* controller harness: the method each caller is in / was last in
    cret,           \* controller harness: value returned by the caller's last method
    cpre,           \* controller harness: the flags when the caller's method body began
    state,          \* Client.state
    stateLocked,    \* Client.stateMutex is write-locked (a setState is in progress)
    sessionID,      \* Client.sessionID
    transport,      \* Client.transport: "nil", or the connection's condition: "open", "lost" (ended by the peer or the network) or "closed" (by Close)
    closeChan,      \* Client.closeChan: "open" or "closed"
    panicked,       \* the process has died of a Go panic
    audioSendChan,  \* Client.audioSendChan: queued frames
    nCapture,       \* running startAudioCapture goroutines
    capAt,          \* of these, how many are at each position of the handling of a recorded frame
    pc,             \* position of every goroutine
    ret,            \* the return of an exported method in this step: <<method, result>>
    held,           \* per sender: the frame taken from audioSendChan (0: none)
    events,         \* exported-method calls made plus inbound messages received so far
    frames,         \* frames handed to SendAudio so far
    tx,             \* what this step handed to Transport.Send: <<kind, frame>>
    hpre,           \* per pump, under the serial schedule: Client.state when it took its last message
    attempt,        \* per caller inside Connect: transport connects tried, hello messages sent and tasks started by this call
    schedule,       \* the schedule of the run: "any", "serial", "solo" or "stream"
    currentDelay,   \* ExponentialBackoff.currentDelay, in seconds
    maxDelay,       \* ExponentialBackoff.maxDelay, in seconds
    delays,         \* the NextDelay returns so far, in call order, with 0 for a Reset
    ws,             \* a WSProtocol: conn, closeChan, the length of msgChan, the times msgChan was closed, and the position of readPump
    lk              \* per goroutine of the lock harness: the operation it runs, the locks of it that it holds, and whether it is on its way out

ctrlVars == <<isSending, isReceiving>>
harnessVars == <<mu, cpc, cop, cret, cpre>>
backoffVars == <<currentDelay, maxDelay, delays>>
sideVars == <<ws, lk>>

\* handlers and calls run one at a time: a message is taken only while no call
\* is in progress, and a call begins only while no handler is running
serial == schedule = "serial"
\* one caller goroutine makes every call and Connect succeeds at most once
solo == schedule = "solo"
\* the callers only stream audio: BeginAudioStream, EndAudioStream, SendAudio
stream == schedule = "stream"
\* Connect is called again while a session is live, and nothing else is called
duo == schedule = "duo"
clientVars == <<state, stateLocked, sessionID, transport, closeChan, panicked,
                audioSendChan, nCapture, capAt, pc, ret, held, events,
                frames, tx, hpre, attempt, schedule>>
vars == <<isSending, isReceiving, mu, cpc, cop, cret, cpre,
          state, stateLocked, sessionID, transport, closeChan, panicked,
          audioSendChan, nCapture, capAt, pc, ret, held, events,
          frames, tx, hpre, attempt, schedule, currentDelay, maxDelay, delays,
          ws, lk>>

\* ------------------------------------------------- audio/controller.go
\* The body of each controller method, between Lock and the deferred Unlock,
\* as a function of the two flags: the returned value and the flags after.

StartSendingNoCheck(s, r) == [ret |-> TRUE, s |-> TRUE, r |-> r]

StartSending(s, r) ==
    IF r THEN [ret |-> FALSE, s |-> s, r |-> r]
         ELSE [ret |-> TRUE, s |-> TRUE, r |-> r]

StopSendingToggle(s, r) == [ret |-> TRUE, s |-> ~s, r |-> r]

StopSending(s, r) == [ret |-> TRUE, s |-> FALSE, r |-> r]

StartReceivingRefuse(s, r) == [ret |-> FALSE, s |-> s, r |-> r]

StartReceivingClobber(s, r) ==
    IF s THEN [ret |-> FALSE, s |-> s, r |-> r]
         ELSE [ret |-> TRUE, s |-> TRUE, r |-> TRUE]

StartReceiving(s, r) ==
    IF s THEN [ret |-> FALSE, s |-> s, r |-> r]
         ELSE [ret |-> TRUE, s |-> s, r |-> TRUE]

StopReceivingKeep(s, r) == [ret |-> TRUE, s |-> s, r |-> r]

StopReceiving(s, r) == [ret |-> TRUE, s |-> s, r |-> FALSE]

CtrlMethods == {"StartSending", "StopSending", "StartReceiving", "StopReceiving"}

CtrlBody(m, s, r) ==
    CASE m = "StartSending"   -> StartSending(s, r)
      [] m = "StopSending"    -> StopSending(s, r)
      [] m = "StartReceiving" -> StartReceiving(s, r)
      [] m = "StopReceiving"  -> StopReceiving(s, r)

\* NewController: both flags false, mutex free.
CtrlInit ==
    /\ isSending = FALSE
    /\ isReceiving = FALSE
    /\ mu = 0
    /\ cpc = [c \in CtrlCallers |-> "idle"]
    /\ cop = [c \in CtrlCallers |-> "none"]
    /\ cret = [c \in CtrlCallers |-> TRUE]
    /\ cpre = [c \in CtrlCallers |-> [s |-> FALSE, r |-> FALSE]]

\* no transport connect tried and no task started
NoAttempt == [dials |-> 0, hello |-> 0, tasks |-> 0]

\* NewClient: state Unknown, no transport, channels open and empty, no task.
ClientStart ==
    /\ state = "unknown"
    /\ stateLocked = FALSE
    /\ sessionID = ""
    /\ transport = "nil"
    /\ closeChan = "open"
    /\ panicked = FALSE
    /\ audioSendChan = <<>>
    /\ nCapture = 0
    /\ capAt = [q \in CapPos |-> 0]
    /\ pc = [t \in Threads |-> IF t \in Callers THEN "idle" ELSE "unborn"]
    /\ ret = <<"none", "none">>
    /\ held = [s \in Senders |-> 0]
    /\ events = 0
    /\ frames = 0
    /\ tx = <<"none", 0>>
    /\ hpre = [p \in Pumps |-> "none"]
    /\ attempt = [c \in Callers |-> NoAttempt]

\* every interleaving of the goroutines' steps is allowed
ClientInit == ClientStart /\ schedule = "any"

\* NewExponentialBackoff
BackoffInit ==
    /\ currentDelay = BackoffFloor
    /\ maxDelay = BackoffCeiling
    /\ delays = <<>>

\* NewWebSocketProtocol
WSInit ==
    ws = [conn |-> "nil", closeChan |-> "open", msgChan |-> 0, msgChanCloses |-> 0,
          readPump |-> "none"]

\* no goroutine of the lock harness is inside an operation
LockIdle == [op |-> "none", held |-> 0, out |-> FALSE]
LockInit == lk = [t \in LockTasks |-> LockIdle]

SideInit == WSInit /\ LockInit

Init == CtrlInit /\ ClientInit /\ BackoffInit /\ SideInit

\* the serial schedule: a message is taken only while no call is in progress,
\* and a call begins only while no handler is running
InitSerial == CtrlInit /\ ClientStart /\ schedule = "serial" /\ BackoffInit /\ SideInit

\* the stream schedule
InitStream == CtrlInit /\ ClientStart /\ schedule = "stream" /\ BackoffInit /\ SideInit

\* the solo schedule
InitSolo == CtrlInit /\ ClientStart /\ schedule = "solo" /\ BackoffInit /\ SideInit

\* the duo schedule
InitDuo == CtrlInit /\ ClientStart /\ schedule = "duo" /\ BackoffInit /\ SideInit

\* A goroutine enters one of the four methods.
CtrlCall(c) ==
    /\ cpc[c] = "idle"
    /\ \E m \in CtrlMethods : cop' = [cop EXCEPT ![c] = m]
    /\ cpc' = [cpc EXCEPT ![c] = "lock"]
    /\ UNCHANGED <<isSending, isReceiving, mu, cret, cpre>>
    /\ UNCHANGED <<clientVars, backoffVars, sideVars>>

\* c.mu.Lock()
CtrlLock(c) ==
    /\ cpc[c] = "lock"
    /\ mu = 0
    /\ mu' = c
    /\ cpc' = [cpc EXCEPT ![c] = "body"]
    /\ UNCHANGED <<isSending, isReceiving, cop, cret, cpre>>
    /\ UNCHANGED <<clientVars, backoffVars, sideVars>>

\* the method body, executed holding the mutex
CtrlRun(c) ==
    /\ cpc[c] = "body"
    /\ mu = c
    /\ LET x == CtrlBody(cop[c], isSending, isReceiving) IN
        /\ isSending' = x.s
        /\ isReceiving' = x.r
        /\ cret' = [cret EXCEPT ![c] = x.ret]
    /\ cpre' = [cpre EXCEPT ![c] = [s |-> isSending, r |-> isReceiving]]
    /\ cpc' = [cpc EXCEPT ![c] = "unlock"]
    /\ UNCHANGED <<mu, cop>>
    /\ UNCHANGED <<clientVars, backoffVars, sideVars>>

\* defer c.mu.Unlock(), and the return
CtrlUnlock(c) ==
    /\ cpc[c] = "unlock"
    /\ mu = c
    /\ mu' = 0
    /\ cpc' = [cpc EXCEPT ![c] = "idle"]
    /\ UNCHANGED <<isSending, isReceiving, cop, cret, cpre>>
    /\ UNCHANGED <<clientVars, backoffVars, sideVars>>

CtrlNext ==
    \E c \in CtrlCallers :
        \/ CtrlCall(c)
        \/ CtrlLock(c)
        \/ CtrlRun(c)
        \/ CtrlUnlock(c)

\* The controller alone, driven by concurrent callers.
SpecCtrl == Init /\ [][CtrlNext]_vars

\* ------------------------------------------------------- utils.ExponentialBackoff
\* Delays are whole seconds; a time.Duration is an int64 of nanoseconds, far
\* from overflow at twice the ceiling.

NextDelayNoCap(cur, max) == [ret |-> cur, cur |-> cur * 2]

NextDelayReturnsNew(cur, max) ==
    LET new == IF cur * 2 > max THEN max ELSE cur * 2
    IN  [ret |-> new, cur |-> new]

\* NextDelay: returns the current delay and doubles it up to maxDelay
NextDelay(cur, max) ==
    [ret |-> cur, cur |-> IF cur * 2 > max THEN max ELSE cur * 2]

\* ReconnectStrategy.Reset: the current delay is the floor again
Reset(cur, max) == BackoffFloor

\* a NextDelay call on the policy
BackoffNextDelay ==
    /\ Len(delays) < MaxBackoffCalls
    /\ LET x == NextDelay(currentDelay, maxDelay) IN
        /\ currentDelay' = x.cur
        /\ delays' = Append(delays, x.ret)
    /\ UNCHANGED <<maxDelay, ctrlVars, harnessVars, clientVars, sideVars>>

\* a Reset call on the policy
BackoffReset ==
    /\ Len(delays) < MaxBackoffCalls
    /\ currentDelay' = Reset(currentDelay, maxDelay)
    /\ delays' = Append(delays, 0)
    /\ UNCHANGED <<maxDelay, ctrlVars, harnessVars, clientVars, sideVars>>

BackoffNext == BackoffNextDelay \/ BackoffReset

\* The backoff policy alone, driven by its caller.
SpecBackoff == Init /\ [][BackoffNext]_vars

\* ------------------------------------- protocols/websocket/transport.go
\* A WSProtocol, its readPump goroutine, and the goroutine that receives from
\* the queue returned by Receive.

\* a step that touches nothing but the WSProtocol
WSOnly == UNCHANGED <<ctrlVars, harnessVars, clientVars, backoffVars, lk>>

\* WSProtocol.Connect, lines 57-72: the dial succeeds, p.conn is set and
\* readPump is started
WSConnect ==
    /\ ws.conn = "nil"
    /\ ws.closeChan = "open"
    /\ ws' = [ws EXCEPT !.conn = "up", !.readPump = "select"]
    /\ WSOnly

\* readPump returns: its deferred close(p.msgChan), line 75
ReadPumpReturn(w) == [w EXCEPT !.readPump = "done", !.msgChanCloses = @ + 1]

\* readPump, lines 77-80: the select on closeChan with its default branch
WSReadPumpSelect ==
    /\ ws.readPump = "select"
    /\ ws' = IF ws.closeChan = "closed" THEN ReadPumpReturn(ws)
                                        ELSE [ws EXCEPT !.readPump = "read"]
    /\ WSOnly

\* readPump, lines 81-84: conn.ReadMessage returns a message from the peer,
\* or an error once the connection has ended or has been closed; it blocks
\* while the connection is up and the peer sends nothing
WSReadMessage ==
    /\ ws.readPump = "read"
    /\ ws' = IF ws.conn = "up" THEN [ws EXCEPT !.readPump = "send"]
                               ELSE ReadPumpReturn(ws)
    /\ WSOnly

\* readPump, lines 85-88: p.msgChan <- Message, which blocks while the queue
\* holds 100 messages
WSReadPumpSend ==
    /\ ws.readPump = "send"
    /\ ws.msgChan < MsgChanCap
    /\ ws' = [ws EXCEPT !.msgChan = @ + 1, !.readPump = "select"]
    /\ WSOnly

WSReadPump == WSReadPumpSelect \/ WSReadMessage \/ WSReadPumpSend

\* the connection ends: the peer closes it or the network fails
WSPeerEnds ==
    /\ ws.conn = "up"
    /\ ws' = [ws EXCEPT !.conn = "ended"]
    /\ WSOnly

\* WSProtocol.Close, lines 125-131, called once: close(p.closeChan), and
\* p.conn.Close() when there is a connection
WSClose ==
    /\ ws.closeChan = "open"
    /\ ws' = [ws EXCEPT !.closeChan = "closed",
                        !.conn = IF @ = "nil" THEN @ ELSE "closed"]
    /\ WSOnly

\* the consumer takes a message from the queue returned by Receive
WSConsume ==
    /\ ws.msgChan > 0
    /\ ws' = [ws EXCEPT !.msgChan = @ - 1]
    /\ WSOnly

WSNext ==
    \/ WSConnect
    \/ WSReadPump
    \/ WSPeerEnds
    \/ WSClose
    \/ WSConsume

\* The transport alone: readPump is scheduled fairly, the consumer may stop
\* receiving at any time.
SpecWS == Init /\ [][WSNext]_vars /\ WF_vars(WSReadPump)

\* ------------------------------------------- the client's two locks
\* The goroutines of a client (callers of exported methods, messageHandler,
\* audioSender, the capture goroutine) take stateMutex and the controller's mu
\* only through setState, GetState, GetStatus and the controller's methods.

LockOps == {"setStateCtrl", "setState", "GetState", "controller"}

LockSeqCtrlReadsState(op) ==
    CASE op = "setStateCtrl" -> <<"W", "mu">>
      [] op = "setState"     -> <<"W">>
      [] op = "GetState"     -> <<"R">>
      [] op = "controller"   -> <<"mu", "R">>
      [] OTHER               -> <<>>

\* the locks an operation takes, outermost first: setState takes
\* stateMutex.Lock (W) and, when the state changes to Speaking or Listening,
\* calls StopSending or StartSending under it, which takes mu; GetState and
\* GetStatus take stateMutex.RLock (R); a controller method takes mu
LockSeq(op) ==
    CASE op = "setStateCtrl" -> <<"W", "mu">>
      [] op = "setState"     -> <<"W">>
      [] op = "GetState"     -> <<"R">>
      [] op = "controller"   -> <<"mu">>
      [] OTHER               -> <<>>

\* goroutine t holds lock l
Holds(t, l) == \E i \in 1..lk[t].held : LockSeq(lk[t].op)[i] = l

\* the lock goroutine t is about to take, "none" when there is none
Wants(t) ==
    IF ~lk[t].out /\ lk[t].held < Len(LockSeq(lk[t].op))
    THEN LockSeq(lk[t].op)[lk[t].held + 1]
    ELSE "none"

\* sync.Mutex and sync.RWMutex: goroutine u keeps lock l from being taken
Blocks(u, l) ==
    CASE l = "mu" -> Holds(u, "mu")
      [] l = "W"  -> Holds(u, "W") \/ Holds(u, "R")
      [] l = "R"  -> Holds(u, "W")
      [] OTHER    -> FALSE

\* sync.RWMutex: goroutine u is blocked in stateMutex.Lock; from then on
\* RLock calls of other goroutines wait for it
PendingWriter(u) == Wants(u) = "W" /\ \E v \in LockTasks \ {u} : Blocks(v, "W")

\* goroutine t is, or may be, blocked in Lock or RLock by goroutine u
WaitsFor(t, u) ==
    /\ t # u
    /\ Wants(t) # "none"
    /\ Blocks(u, Wants(t)) \/ (Wants(t) = "R" /\ PendingWriter(u))

WaitSucc(S) == {u \in LockTasks : \E t \in S : WaitsFor(t, u)}

RECURSIVE WaitReach(_, _)
WaitReach(S, n) == IF n = 0 THEN S ELSE WaitReach(S \cup WaitSucc(S), n - 1)

\* goroutine t waits, directly or through others, for itself
InWaitCycle(t) == t \in WaitReach(WaitSucc({t}), NumLockTasks)

LockOnly == UNCHANGED <<ctrlVars, harnessVars, clientVars, backoffVars, ws>>

\* a goroutine enters setState, GetState, GetStatus or a controller method
LockCall(t) ==
    /\ lk[t].op = "none"
    /\ \E op \in LockOps : lk' = [lk EXCEPT ![t] = [op |-> op, held |-> 0, out |-> FALSE]]
    /\ LockOnly

\* Lock or RLock returns: the lock is free of every other goroutine
LockAcquire(t) ==
    /\ Wants(t) # "none"
    /\ \A u \in LockTasks \ {t} : ~Blocks(u, Wants(t))
    /\ lk' = [lk EXCEPT ![t].held = @ + 1]
    /\ LockOnly

\* the deferred Unlock or RUnlock of the innermost lock held runs as its
\* function returns
LockRelease(t) ==
    /\ lk[t].held > 0
    /\ Wants(t) = "none"
    /\ lk' = [lk EXCEPT ![t] = IF lk[t].held = 1
                                 THEN LockIdle
                                 ELSE [@ EXCEPT !.held = @ - 1, !.out = TRUE]]
    /\ LockOnly

LockNext == \E t \in LockTasks : LockCall(t) \/ LockAcquire(t) \/ LockRelease(t)

SpecLocks == Init /\ [][LockNext]_vars

\* ------------------------------------------------------- core client
\* ---- helpers shared by the client's steps

\* goroutine t is at l and the process has not died of a panic; the
\* controller harness takes no part in the client's run
At(t, l) ==
    pc[t] = l /\ ~panicked /\ UNCHANGED <<harnessVars, schedule, backoffVars, sideVars>>
Goto(t, l) == pc' = [pc EXCEPT ![t] = l]
\* the call of method m by caller c returns r ("ok": nil, "err": an error) in this step
Returns(c, m, r) == ret' = <<m, r>>
\* no exported method returns in this step
NoRet == ret' = <<"none", "none">>
NoTx == tx' = <<"none", 0>>
Apply(x) == isSending' = x.s /\ isReceiving' = x.r

\* WSProtocol.Send: an error when the connection is gone, else the result of
\* the socket write, which may fail at any time.
SendOutcomes == IF transport \in {"open", "lost"} THEN {TRUE, FALSE} ELSE {FALSE}

\* Client.setState, the switch on newState run when the state changes.
SetStateSideEffect(new, s, r) ==
    CASE new = "speaking"  -> StopSending(s, r)
      [] new = "listening" -> StartSending(s, r)
      [] OTHER             -> [ret |-> TRUE, s |-> s, r |-> r]

\* Client.setState up to the controller call: takes stateMutex; when the state
\* is already newState nothing happens and the lock is released at once (-> done);
\* for Speaking and Listening the controller is called under the lock (-> mid);
\* any other state is written and the lock released (-> done).
SetStateBegin(t, here, new, mid, done) ==
    /\ At(t, here)
    /\ ~stateLocked
    /\ IF state = new
         THEN /\ Goto(t, done)
              /\ UNCHANGED <<state, stateLocked, isSending, isReceiving>>
         ELSE IF new \in {"speaking", "listening"}
           THEN /\ Apply(SetStateSideEffect(new, isSending, isReceiving))
                /\ stateLocked' = TRUE
                /\ Goto(t, mid)
                /\ UNCHANGED state
           ELSE /\ state' = new
                /\ Goto(t, done)
                /\ UNCHANGED <<stateLocked, isSending, isReceiving>>

\* Client.setState from the controller call on: c.state = newState, Unlock.
SetStateEnd(t, here, new, done) ==
    /\ At(t, here)
    /\ stateLocked
    /\ state' = new
    /\ stateLocked' = FALSE
    /\ Goto(t, done)
    /\ UNCHANGED <<isSending, isReceiving>>

\* ---- exported methods, called by the caller goroutines

sessVars == <<sessionID, transport, closeChan, panicked>>
audioVars == <<audioSendChan, nCapture, capAt, held, frames>>
flagVars == <<isSending, isReceiving>>
lockVars == <<state, stateLocked>>

\* the calls and messages a run may make
Budget ==
    CASE solo   -> MaxSoloEvents
      [] stream -> MaxStreamEvents
      [] duo    -> MaxDuoEvents
      [] OTHER  -> MaxEvents

\* the pumps a Connect call may start
SessionLimit ==
    CASE solo  -> 1
      [] duo   -> MaxDuoSessions
      [] OTHER -> MaxSessions

Startable == {p \in Pumps : pc[p] = "unborn" /\ p[2] <= SessionLimit}

\* pump p is running a message handler
InHandler(p) == pc[p] \notin {"unborn", "select", "done"}

\* a caller begins a call of an exported method; idle callers are
\* interchangeable, so the call is made by the first idle one
Enter(c) ==
    /\ At(c, "idle")
    /\ \A d \in Callers : d[2] < c[2] => pc[d] # "idle"
    /\ events < Budget
    /\ events' = events + 1
    /\ serial => \A p \in Pumps : ~InHandler(p)
    /\ solo => c[2] = 1
    /\ UNCHANGED <<hpre, attempt>>

\* the callers inside Connect whose transport has connected and whose pump
\* has not been started yet
Dialled == {c \in Callers : pc[c] \in {"K_hello", "K_spawnPump"}}

\* Client.Connect, line 174: setState(Connecting), whatever the state is
Connect(c) ==
    /\ Enter(c)
    /\ SetStateBegin(c, "idle", "connecting", "idle", "K_dial")
    /\ NoRet
    /\ NoTx
    /\ UNCHANGED <<sessVars, audioVars>>

DialFailRetryOnce(n) == IF n < 2 THEN "K_dial" ELSE "K_dialFail"

\* Client.Connect, lines 180-184 and 186-190: where Connect goes when the
\* transport cannot be created or connected, n being the connects tried
DialFailNext(n) == "K_dialFail"

\* the outcomes of NewProtocol and transport.Connect: failure, or success
\* while a further pump and sender may be started
DialOutcomes ==
    IF Cardinality(Dialled) < Cardinality(Startable) THEN {TRUE, FALSE} ELSE {FALSE}

\* Client.Connect, lines 179-192: NewProtocol and transport.Connect; on
\* success c.transport is the new connection
ConnectDial(c) ==
    /\ At(c, "K_dial")
    /\ \E ok \in DialOutcomes :
        IF ok THEN transport' = "open" /\ Goto(c, "K_hello")
              ELSE UNCHANGED transport /\ Goto(c, DialFailNext(attempt[c].dials + 1))
    /\ attempt' = [attempt EXCEPT ![c].dials = @ + 1]
    /\ NoTx
    /\ NoRet
    /\ UNCHANGED <<flagVars, lockVars, sessionID, closeChan, panicked, audioVars,
                   events, hpre>>

\* Client.Connect, lines 181/187: setState(Unknown) and the error return
ConnectDialFail(c) ==
    /\ SetStateBegin(c, "K_dialFail", "unknown", "idle", "idle")
    /\ Returns(c, "Connect", "err")
    /\ NoTx
    /\ attempt' = [attempt EXCEPT ![c] = NoAttempt]
    /\ UNCHANGED <<sessVars, audioVars, events, hpre>>

\* Client.Connect, line 206: sendJSON(helloMsg)
ConnectHello(c) ==
    /\ At(c, "K_hello")
    /\ IF transport = "nil"
         THEN NoTx /\ Goto(c, "K_helloFailClose")
         ELSE /\ tx' = <<"hello", 0>>
              /\ \E ok \in SendOutcomes :
                    Goto(c, IF ok THEN "K_spawnPump" ELSE "K_helloFailClose")
    /\ attempt' = [attempt EXCEPT ![c].hello = IF pc'[c] = "K_spawnPump" THEN 1 ELSE 0]
    /\ NoRet
    /\ UNCHANGED <<flagVars, lockVars, sessVars, audioVars, events, hpre>>

\* WSProtocol.Close on the client's transport: close(p.closeChan) panics when
\* the transport has been closed before
TransportCloseResult == IF transport = "closed" THEN "panic" ELSE "closed"

\* Client.Connect, line 207: c.transport.Close() after a failed hello
ConnectHelloFailClose(c) ==
    /\ At(c, "K_helloFailClose")
    /\ IF TransportCloseResult = "panic"
         THEN panicked' = TRUE /\ UNCHANGED transport
         ELSE transport' = "closed" /\ UNCHANGED panicked
    /\ Goto(c, "K_helloFailSet")
    /\ NoTx
    /\ NoRet
    /\ UNCHANGED <<flagVars, lockVars, sessionID, closeChan, audioVars, events, hpre, attempt>>

\* Client.Connect, line 208: setState(Unknown) and the error return
ConnectHelloFailSet(c) ==
    /\ SetStateBegin(c, "K_helloFailSet", "unknown", "idle", "idle")
    /\ Returns(c, "Connect", "err")
    /\ NoTx
    /\ attempt' = [attempt EXCEPT ![c] = NoAttempt]
    /\ UNCHANGED <<sessVars, audioVars, events, hpre>>

\* the first task of kind K that has not been started
Unborn(K) == {t \in K : pc[t] = "unborn" /\ \A u \in K : u[2] < t[2] => pc[u] # "unborn"}

\* Client.Connect, lines 213-214: wg.Add(1); go c.messageHandler()
ConnectSpawnPump(c) ==
    /\ At(c, "K_spawnPump")
    /\ \E p \in Unborn(Pumps) :
        pc' = [pc EXCEPT ![c] = "K_spawnSender", ![p] = "select"]
    /\ NoTx
    /\ NoRet
    /\ attempt' = [attempt EXCEPT ![c].tasks = @ + 1]
    /\ UNCHANGED <<flagVars, lockVars, sessVars, audioVars, events, hpre>>

\* Client.Connect, lines 216-217: wg.Add(1); go c.audioSender()
ConnectSpawnSender(c) ==
    /\ At(c, "K_spawnSender")
    /\ \E s \in Unborn(Senders) :
        pc' = [pc EXCEPT ![c] = "K_setIdle", ![s] = "wait"]
    /\ NoTx
    /\ NoRet
    /\ attempt' = [attempt EXCEPT ![c].tasks = @ + 1]
    /\ UNCHANGED <<flagVars, lockVars, sessVars, audioVars, events, hpre>>

\* Client.Connect, lines 220-221: setState(Idle); return nil
ConnectSetIdle(c) ==
    /\ SetStateBegin(c, "K_setIdle", "idle", "idle", "idle")
    /\ Returns(c, "Connect", "ok")
    /\ NoTx
    /\ attempt' = [attempt EXCEPT ![c] = NoAttempt]
    /\ UNCHANGED <<sessVars, audioVars, events, hpre>>

\* Client.StartListening, line 254: the state the call may start from
StartListeningAllowed(st) == st = "idle"

\* Client.StopListening, line 279: the state the call may start from
StopListeningAllowedAny(st) == TRUE

StopListeningAllowed(st) == st = "listening"

\* Client.StartListening, lines 253-257: GetState and the check
StartListening(c) ==
    /\ Enter(c)
    /\ ~stateLocked
    /\ IF StartListeningAllowed(state)
         THEN Goto(c, "SL_send") /\ NoRet
         ELSE Goto(c, "idle") /\ Returns(c, "StartListening", "err")
    /\ NoTx
    /\ UNCHANGED <<flagVars, lockVars, sessVars, audioVars>>

\* Client.sendJSON called by a caller: an error without a transport, else
\* transport.Send of the text message
CallerSendJSON(c, here, m, kind, next) ==
    /\ At(c, here)
    /\ IF transport = "nil"
         THEN NoTx /\ Goto(c, "idle") /\ Returns(c, m, "err")
         ELSE /\ tx' = <<kind, 0>>
              /\ \E ok \in SendOutcomes :
                    IF ok THEN Goto(c, next) /\ NoRet
                          ELSE Goto(c, "idle") /\ Returns(c, m, "err")
    /\ UNCHANGED <<flagVars, lockVars, sessVars, audioVars, events, hpre, attempt>>

\* Client.StartListening, line 267: sendJSON(listen start)
StartListeningSend(c) ==
    CallerSendJSON(c, "SL_send", "StartListening", "listen_start", "SL_set")

\* Client.StartListening, line 272: setState(Listening), controller call
StartListeningSet(c) ==
    /\ SetStateBegin(c, "SL_set", "listening", "SL_setB", "idle")
    /\ IF pc'[c] = "idle" THEN Returns(c, "StartListening", "ok") ELSE NoRet
    /\ NoTx
    /\ UNCHANGED <<sessVars, audioVars, events, hpre, attempt>>

\* Client.StartListening, lines 272-273: the state write; return nil
StartListeningSetEnd(c) ==
    /\ SetStateEnd(c, "SL_setB", "listening", "idle")
    /\ Returns(c, "StartListening", "ok")
    /\ NoTx
    /\ UNCHANGED <<sessVars, audioVars, events, hpre, attempt>>

\* Client.StopListening, lines 278-282: GetState and the check
StopListening(c) ==
    /\ Enter(c)
    /\ ~stateLocked
    /\ IF StopListeningAllowed(state)
         THEN Goto(c, "TL_send") /\ NoRet
         ELSE Goto(c, "idle") /\ Returns(c, "StopListening", "err")
    /\ NoTx
    /\ UNCHANGED <<flagVars, lockVars, sessVars, audioVars>>

\* Client.StopListening, line 291: sendJSON(listen stop)
StopListeningSend(c) ==
    CallerSendJSON(c, "TL_send", "StopListening", "listen_stop", "TL_set")

\* Client.StopListening, lines 296-297: setState(Idle); return nil
StopListeningSet(c) ==
    /\ SetStateBegin(c, "TL_set", "idle", "idle", "idle")
    /\ Returns(c, "StopListening", "ok")
    /\ NoTx
    /\ UNCHANGED <<sessVars, audioVars, events, hpre, attempt>>

\* Client.BeginAudioStream
BeginAudioStream(c) ==
    /\ Enter(c)
    /\ LET x == StartSending(isSending, isReceiving) IN
        /\ Apply(x)
        /\ Returns(c, "BeginAudioStream", IF x.ret THEN "ok" ELSE "err")
    /\ NoTx
    /\ UNCHANGED <<lockVars, sessVars, audioVars, pc>>

\* Client.EndAudioStream
EndAudioStream(c) ==
    /\ Enter(c)
    /\ Apply(StopSending(isSending, isReceiving))
    /\ Returns(c, "EndAudioStream", "ok")
    /\ NoTx
    /\ UNCHANGED <<lockVars, sessVars, audioVars, pc>>

\* GetStatus, lines 334-337: connStatus is "connected" when c.transport is
\* not nil
ConnectionStatus(tr) == IF tr = "nil" THEN "disconnected" ELSE "connected"

\* Client.GetStatus: under stateMutex.RLock, the connection status is
\* computed from c.transport and returned with the state and the session id
GetStatus(c) ==
    /\ Enter(c)
    /\ ~stateLocked
    /\ Returns(c, "GetStatus", ConnectionStatus(transport))
    /\ NoTx
    /\ UNCHANGED <<flagVars, lockVars, sessVars, audioVars, pc>>

\* Client.SendAudio, lines 302-304: the IsSending check
SendAudio(c) ==
    /\ Enter(c)
    /\ IF isSending
         THEN Goto(c, "SA_enqueue") /\ NoRet
         ELSE Goto(c, "idle") /\ Returns(c, "SendAudio", "err")
    /\ NoTx
    /\ UNCHANGED <<flagVars, lockVars, sessVars, audioVars>>

HasRoomOneMore(q) == Len(q) <= AudioSendChanCap

\* the send on c.audioSendChan, a channel of capacity 100, can proceed
HasRoom(q) == Len(q) < AudioSendChanCap

\* Client.SendAudio, lines 306-312: the non-blocking enqueue of the frame
SendAudioEnqueue(c) ==
    /\ At(c, "SA_enqueue")
    /\ IF HasRoom(audioSendChan)
         THEN /\ frames' = frames + 1
              /\ audioSendChan' = Append(audioSendChan, frames + 1)
              /\ Returns(c, "SendAudio", "ok")
         ELSE /\ UNCHANGED <<frames, audioSendChan>>
              /\ Returns(c, "SendAudio", "err")
    /\ Goto(c, "idle")
    /\ NoTx
    /\ UNCHANGED <<flagVars, lockVars, sessVars, nCapture, capAt, held, events, hpre, attempt>>

\* Client.Close, line 347: close(c.closeChan), a panic when already closed
Close(c) ==
    /\ Enter(c)
    /\ IF closeChan = "closed"
         THEN panicked' = TRUE /\ UNCHANGED closeChan
         ELSE closeChan' = "closed" /\ UNCHANGED panicked
    /\ Goto(c, "X_stopCapture")
    /\ NoRet
    /\ NoTx
    /\ UNCHANGED <<flagVars, lockVars, sessionID, transport, audioVars>>

\* the capture goroutines that are handling a recorded frame, and those
\* waiting in the select of startAudioCapture (lines 822-828)
CapBusy == capAt["c_state"] + capAt["c_sending"] + capAt["c_sendAudio"] + capAt["c_enqueue"]
CapWaiting == nCapture - CapBusy

\* Client.StopAudioCapture: the non-blocking send on audioStopChan is taken by
\* a capture goroutine waiting in its select, or falls to the default branch
CloseStopCapture(c) ==
    /\ At(c, "X_stopCapture")
    /\ \/ CapWaiting > 0 /\ nCapture' = nCapture - 1
       \/ UNCHANGED nCapture
    /\ Goto(c, "X_transport")
    /\ NoTx
    /\ NoRet
    /\ UNCHANGED <<flagVars, lockVars, sessVars, audioSendChan, capAt, held, frames,
                   events, hpre, attempt>>

\* Client.Close, lines 352-357: c.transport.Close(), an error ends the call
CloseTransport(c) ==
    /\ At(c, "X_transport")
    /\ IF transport = "nil"
         THEN Goto(c, "X_wait") /\ NoRet /\ UNCHANGED <<transport, panicked>>
         ELSE IF TransportCloseResult = "panic"
           THEN panicked' = TRUE /\ NoRet /\ UNCHANGED <<transport, pc>>
           ELSE /\ transport' = "closed"
                /\ UNCHANGED panicked
                /\ \E err \in BOOLEAN :
                     IF err THEN Goto(c, "idle") /\ Returns(c, "Close", "err")
                            ELSE Goto(c, "X_wait") /\ NoRet
    /\ NoTx
    /\ UNCHANGED <<flagVars, lockVars, sessionID, closeChan, audioVars, events, hpre, attempt>>

\* the tasks counted by Client.wg that have not returned
WgPending == {t \in Pumps \cup Senders : pc[t] \notin {"unborn", "done"}}

\* Client.Close, line 359: c.wg.Wait()
CloseWait(c) ==
    /\ At(c, "X_wait")
    /\ WgPending = {}
    /\ Goto(c, "X_set")
    /\ NoTx
    /\ NoRet
    /\ UNCHANGED <<flagVars, lockVars, sessVars, audioVars, events, hpre, attempt>>

\* Client.Close, lines 360-362: setState(Disconnected); return nil
CloseSetDisconnected(c) ==
    /\ SetStateBegin(c, "X_set", "disconnected", "idle", "idle")
    /\ Returns(c, "Close", "ok")
    /\ NoTx
    /\ UNCHANGED <<sessVars, audioVars, events, hpre, attempt>>

\* ---- startAudioCapture goroutines (their start is in handleHelloResponse)

\* Client.startAudioCapture, lines 823-825: the goroutine ends on closeChan
CaptureExit ==
    /\ ~panicked
    /\ UNCHANGED <<harnessVars, schedule, backoffVars, sideVars>>
    /\ CapWaiting > 0
    /\ closeChan = "closed"
    /\ nCapture' = nCapture - 1
    /\ NoTx
    /\ NoRet
    /\ UNCHANGED <<flagVars, lockVars, sessVars, audioSendChan, capAt, held, frames, pc,
                   events, hpre, attempt>>

\* one capture goroutine moves from position a to position b, "select" being
\* the select of the loop
CapGo(a, b) ==
    capAt' = [q \in CapPos |-> capAt[q] - (IF q = a THEN 1 ELSE 0)
                                        + (IF q = b THEN 1 ELSE 0)]

\* a step of a capture goroutine that is at position a
CapAt(a) ==
    /\ ~panicked
    /\ IF a = "select" THEN CapWaiting > 0 ELSE capAt[a] > 0
    /\ NoTx
    /\ UNCHANGED <<harnessVars, schedule, backoffVars, sideVars, sessVars, lockVars, flagVars,
                   nCapture, held, pc, hpre, attempt>>

\* Client.startAudioCapture, lines 829-833: case data, ok := <-audioDataChan,
\* a frame written by the recorder
CaptureFrame ==
    /\ CapAt("select")
    /\ events < Budget
    /\ events' = events + 1
    /\ CapGo("select", "c_state")
    /\ NoRet
    /\ UNCHANGED <<audioSendChan, frames>>

\* Client.startAudioCapture, line 836: c.GetState() == DeviceStateListening;
\* the frame is skipped in any other state
CaptureGetState ==
    /\ CapAt("c_state")
    /\ ~stateLocked
    /\ CapGo("c_state", IF state = "listening" THEN "c_sending" ELSE "select")
    /\ NoRet
    /\ UNCHANGED <<audioSendChan, frames, events>>

\* Client.startAudioCapture, line 836: && c.audioCtrl.IsSending()
CaptureIsSending ==
    /\ CapAt("c_sending")
    /\ CapGo("c_sending", IF isSending THEN "c_sendAudio" ELSE "select")
    /\ NoRet
    /\ UNCHANGED <<audioSendChan, frames, events>>

\* Client.SendAudio called at line 837, lines 302-304: the IsSending check;
\* its error is logged by startAudioCapture (lines 838-840)
CaptureSendAudio ==
    /\ CapAt("c_sendAudio")
    /\ IF isSending
         THEN CapGo("c_sendAudio", "c_enqueue") /\ NoRet
         ELSE CapGo("c_sendAudio", "select") /\ ret' = <<"SendAudio", "err">>
    /\ UNCHANGED <<audioSendChan, frames, events>>

\* Client.SendAudio called at line 837, lines 306-312: the non-blocking
\* enqueue of the frame
CaptureEnqueue ==
    /\ CapAt("c_enqueue")
    /\ IF HasRoom(audioSendChan)
         THEN /\ frames' = frames + 1
              /\ audioSendChan' = Append(audioSendChan, frames + 1)
              /\ ret' = <<"SendAudio", "ok">>
         ELSE /\ UNCHANGED <<frames, audioSendChan>>
              /\ ret' = <<"SendAudio", "err">>
    /\ CapGo("c_enqueue", "select")
    /\ UNCHANGED events

CaptureStep ==
    \/ CaptureFrame \/ CaptureGetState \/ CaptureIsSending
    \/ CaptureSendAudio \/ CaptureEnqueue

\* ---- Client.audioSender

\* lines 506-507: case <-c.closeChan: return
SenderClosed(s) ==
    /\ At(s, "wait")
    /\ closeChan = "closed"
    /\ Goto(s, "done")
    /\ NoTx
    /\ NoRet
    /\ UNCHANGED <<flagVars, lockVars, sessVars, audioVars, events, hpre, attempt>>

\* line 508: case data := <-c.audioSendChan
SenderDequeue(s) ==
    /\ At(s, "wait")
    /\ audioSendChan # <<>>
    /\ held' = [held EXCEPT ![s] = Head(audioSendChan)]
    /\ audioSendChan' = Tail(audioSendChan)
    /\ Goto(s, "check")
    /\ NoTx
    /\ NoRet
    /\ UNCHANGED <<flagVars, lockVars, sessVars, nCapture, capAt, frames, events, hpre, attempt>>

\* line 509: if c.audioCtrl.IsSending(); the frame is dropped otherwise
SenderCheck(s) ==
    /\ At(s, "check")
    /\ IF isSending
         THEN Goto(s, "send") /\ UNCHANGED held
         ELSE Goto(s, "wait") /\ held' = [held EXCEPT ![s] = 0]
    /\ NoTx
    /\ NoRet
    /\ UNCHANGED <<flagVars, lockVars, sessVars, audioSendChan, nCapture, capAt, frames,
                   events, hpre, attempt>>

\* lines 510-513: c.transport.Send(data, MsgBinary); an error ends the task
SenderSend(s) ==
    /\ At(s, "send")
    /\ tx' = <<"audio", held[s]>>
    /\ held' = [held EXCEPT ![s] = 0]
    /\ \E ok \in SendOutcomes : Goto(s, IF ok THEN "wait" ELSE "done")
    /\ NoRet
    /\ UNCHANGED <<flagVars, lockVars, sessVars, audioSendChan, nCapture, capAt, frames,
                   events, hpre, attempt>>

\* ---- Client.messageHandler (the inbound pump) and the handlers it runs

pumpFrame == <<sessVars, audioVars, events, hpre, attempt>>

\* The loop of messageHandler has two selects: the outer one returns when
\* closeChan is closed and otherwise falls to its default branch, the inner one
\* takes a message or returns on closeChan. They are one position here, "select":
\* a message the inner select takes after the outer one saw closeChan open is a
\* message taken before closeChan was closed, since the receive and
\* close(closeChan) do not touch the same data.

\* lines 424-425 and 440-441: case <-c.closeChan: return
PumpClosed(p) ==
    /\ At(p, "select")
    /\ closeChan = "closed"
    /\ Goto(p, "done")
    /\ NoTx
    /\ NoRet
    /\ UNCHANGED <<flagVars, lockVars, pumpFrame>>

\* handleMessage, lines 541-559: the handler a message type is routed to
HandlerEntry(k) ==
    CASE k = "hello"     -> "h_sid"
      [] k = "tts_start" -> "ts_end"
      [] k = "tts_stop"  -> "tp_stop"
      [] k = "abort"     -> "ab_set"

\* a message is taken from the transport by pump p
TakeMessage(p) ==
    /\ At(p, "select")
    /\ closeChan = "open"
    /\ events < Budget
    /\ events' = events + 1
    /\ serial => /\ \A c \in Callers : pc[c] = "idle"
                 /\ \A q \in Pumps : ~InHandler(q)
    /\ hpre' = IF serial THEN [hpre EXCEPT ![p] = state] ELSE hpre
    /\ UNCHANGED attempt

\* lines 429-434: case msg := <-msgChan, a text message; handleTextMessage and
\* handleMessage decode it and pick the handler
PumpRecv(p) ==
    /\ TakeMessage(p)
    /\ \E k \in InboundKinds : Goto(p, HandlerEntry(k))
    /\ NoTx
    /\ NoRet
    /\ UNCHANGED <<flagVars, lockVars, sessVars, audioVars>>

HandleResultUnknownErr(k) == IF k = "empty" THEN "ok" ELSE "err"

HandleResultEmptyErr(k) == IF k = "unknown_type" THEN "ok" ELSE "err"

HandleResultErrorNil(k) == IF k \in {"empty", "unknown_type", "error"} THEN "ok" ELSE "err"

\* what handleTextMessage returns for an inert message: nil for a zero-length
\* payload (lines 483-486) and for a type that is not routed (lines 556-558),
\* an error for a missing type (lines 530-533), for a missing field
\* (lines 592-596, 612-615, 669-677, 688-696, 734-744) and for a well-formed
\* error message (line 752)
HandleResult(k) == IF k \in {"empty", "unknown_type"} THEN "ok" ELSE "err"

\* lines 429-434: an inert text message is taken and handled: the handler
\* returns, messageHandler logs an error if there is one and loops
PumpRecvInert(p) ==
    /\ TakeMessage(p)
    /\ \E k \in InertKinds : ret' = <<k, HandleResult(k)>>
    /\ Goto(p, "select")
    /\ NoTx
    /\ UNCHANGED <<flagVars, lockVars, sessVars, audioVars>>

\* lines 435-438: case msg := <-msgChan, a binary message is taken and
\* handleBinaryMessage is entered
PumpRecvBinary(p) ==
    /\ TakeMessage(p)
    /\ Goto(p, "b_check")
    /\ NoTx
    /\ NoRet
    /\ UNCHANGED <<flagVars, lockVars, sessVars, audioVars>>

\* handleBinaryMessage, lines 472-477: if c.audioCtrl.IsReceiving() the frame
\* goes to handleReceivedAudio; otherwise it is dropped and nil is returned
BinaryCheck(p) ==
    /\ At(p, "b_check")
    /\ IF isReceiving
         THEN Goto(p, "b_recheck") /\ NoRet
         ELSE Goto(p, "select") /\ ret' = <<"binary", "ok">>
    /\ NoTx
    /\ UNCHANGED <<flagVars, lockVars, pumpFrame>>

\* handleReceivedAudio, lines 449-452: IsReceiving is read a second time; when
\* it is false the error "not in audio receiving state" is returned
BinaryRecheck(p) ==
    /\ At(p, "b_recheck")
    /\ IF isReceiving
         THEN Goto(p, "b_play") /\ NoRet
         ELSE Goto(p, "select") /\ ret' = <<"binary", "err">>
    /\ NoTx
    /\ UNCHANGED <<flagVars, lockVars, pumpFrame>>

\* handleReceivedAudio, lines 455-465: the frame is decoded and, unless Decode
\* failed, handed to audioPlayer.Play, whose error is returned
BinaryPlay(p) ==
    /\ At(p, "b_play")
    /\ \E o \in {"decode_err", "played", "play_err"} : ret' = <<"audio", o>>
    /\ Goto(p, "select")
    /\ NoTx
    /\ UNCHANGED <<flagVars, lockVars, pumpFrame>>

\* lines 429-434 and 572: a hello message without a string session_id is
\* taken; the type assertion msg["session_id"].(string) panics in the
\* messageHandler goroutine, which has no recover
PumpRecvHelloNoSid(p) ==
    /\ TakeMessage(p)
    /\ panicked' = TRUE
    /\ ret' = <<"hello_no_sid", "panic">>
    /\ Goto(p, "h_sid")
    /\ NoTx
    /\ UNCHANGED <<flagVars, lockVars, sessionID, transport, closeChan, audioVars>>

\* a handler step that only calls the controller
PumpCtrl(p, here, x, next) ==
    /\ At(p, here)
    /\ Apply(x)
    /\ Goto(p, next)
    /\ NoTx
    /\ NoRet
    /\ UNCHANGED <<lockVars, pumpFrame>>

\* SendStartListening, line 865, first GetState: Idle passes the check
SSLRead1(p, here, send, second) ==
    /\ At(p, here)
    /\ ~stateLocked
    /\ Goto(p, IF state # "idle" THEN second ELSE send)
    /\ NoTx
    /\ NoRet
    /\ UNCHANGED <<flagVars, lockVars, pumpFrame>>

\* SendStartListening, line 865, second GetState: Connecting passes the check,
\* any other state is the error return
SSLRead2(p, here, send, after) ==
    /\ At(p, here)
    /\ ~stateLocked
    /\ Goto(p, IF state # "connecting" THEN after ELSE send)
    /\ NoTx
    /\ NoRet
    /\ UNCHANGED <<flagVars, lockVars, pumpFrame>>

\* SendStartListening, line 878: sendJSON(listen start)
SSLSend(p, here, set, after) ==
    /\ At(p, here)
    /\ IF transport = "nil"
         THEN NoTx /\ Goto(p, after)
         ELSE /\ tx' = <<"listen_start", 0>>
              /\ \E ok \in SendOutcomes : Goto(p, IF ok THEN set ELSE after)
    /\ NoRet
    /\ UNCHANGED <<flagVars, lockVars, pumpFrame>>

\* a setState called by a handler, up to the controller call
PumpSetState(p, here, new, mid, next) ==
    /\ SetStateBegin(p, here, new, mid, next)
    /\ NoTx
    /\ NoRet
    /\ UNCHANGED pumpFrame

\* a setState called by a handler, the state write
PumpSetStateEnd(p, here, new, next) ==
    /\ SetStateEnd(p, here, new, next)
    /\ NoTx
    /\ NoRet
    /\ UNCHANGED pumpFrame

\* handleHelloResponse, line 572: c.sessionID = msg["session_id"]
HelloSession(p) ==
    /\ At(p, "h_sid")
    /\ \E sid \in SessionIds : sessionID' = sid
    /\ Goto(p, "h_ssl1")
    /\ NoTx
    /\ NoRet
    /\ UNCHANGED <<flagVars, lockVars, transport, closeChan, panicked, audioVars,
                   events, hpre, attempt>>

\* handleHelloResponse, line 574: SendStartListening(ListenModeAuto)
HelloSSLRead1(p) == SSLRead1(p, "h_ssl1", "h_sslSend", "h_ssl2")
HelloSSLRead2(p) == SSLRead2(p, "h_ssl2", "h_sslSend", "h_beginE")
HelloSSLSend(p) == SSLSend(p, "h_sslSend", "h_sslSet", "h_beginE")
HelloSSLSet(p) == PumpSetState(p, "h_sslSet", "listening", "h_sslSetB", "h_begin")
HelloSSLSetEnd(p) == PumpSetStateEnd(p, "h_sslSetB", "listening", "h_begin")

\* handleHelloResponse, lines 579-582: BeginAudioStream, an error ends the
\* handler. The positions ending in E are those reached with err != nil from
\* SendStartListening (lines 574-576, logged only).
HelloBegin(p) ==
    LET x == StartSending(isSending, isReceiving) IN
    PumpCtrl(p, "h_begin", x, IF x.ret THEN "h_capture" ELSE "select")

HelloBeginE(p) ==
    LET x == StartSending(isSending, isReceiving) IN
    PumpCtrl(p, "h_beginE", x, IF x.ret THEN "h_captureE" ELSE "select")

\* handleHelloResponse, line 585: go c.startAudioCapture()
HelloCapture(p) ==
    /\ (At(p, "h_capture") \/ At(p, "h_captureE"))
    /\ nCapture' = nCapture + 1
    /\ Goto(p, "select")
    /\ NoTx
    /\ NoRet
    /\ UNCHANGED <<flagVars, lockVars, sessVars, audioSendChan, capAt, held, frames,
                   events, hpre, attempt>>

\* handleTTSMessage "start", line 619: c.EndAudioStream()
TTSStartEnd(p) == PumpCtrl(p, "ts_end", StopSending(isSending, isReceiving), "ts_get")

\* handleTTSMessage "start", line 620: if c.GetState() == DeviceStateListening
TTSStartGet(p) ==
    /\ At(p, "ts_get")
    /\ ~stateLocked
    /\ Goto(p, IF state = "listening" THEN "ts_set1" ELSE "ts_recv")
    /\ NoTx
    /\ NoRet
    /\ UNCHANGED <<flagVars, lockVars, pumpFrame>>

\* handleTTSMessage "start", line 622: c.setState(DeviceStateSpeaking)
TTSStartSet1(p) == PumpSetState(p, "ts_set1", "speaking", "ts_set1B", "ts_recv")
TTSStartSet1End(p) == PumpSetStateEnd(p, "ts_set1B", "speaking", "ts_recv")

\* handleTTSMessage "start", lines 625-627: StartReceiving, an error ends the handler
TTSStartRecv(p) ==
    LET x == StartReceiving(isSending, isReceiving) IN
    PumpCtrl(p, "ts_recv", x, IF x.ret THEN "ts_set2" ELSE "select")

\* handleTTSMessage "start", line 628: c.setState(DeviceStateSpeaking)
TTSStartSet2(p) == PumpSetState(p, "ts_set2", "speaking", "ts_set2B", "select")
TTSStartSet2End(p) == PumpSetStateEnd(p, "ts_set2B", "speaking", "select")

\* handleTTSMessage "stop", line 630: c.audioCtrl.StopReceiving()
TTSStopRecv(p) == PumpCtrl(p, "tp_stop", StopReceiving(isSending, isReceiving), "tp_setIdle")

\* handleTTSMessage "stop", line 632: c.setState(DeviceStateIdle)
TTSStopSetIdle(p) == PumpSetState(p, "tp_setIdle", "idle", "tp_setIdle", "tp_ssl1")

\* handleTTSMessage "stop", line 633: SendStartListening(ListenModeAuto)
TTSStopSSLRead1(p) == SSLRead1(p, "tp_ssl1", "tp_sslSend", "tp_ssl2")
TTSStopSSLRead2(p) == SSLRead2(p, "tp_ssl2", "tp_sslSend", "tp_beginE")
TTSStopSSLSend(p) == SSLSend(p, "tp_sslSend", "tp_sslSet", "tp_beginE")
TTSStopSSLSet(p) == PumpSetState(p, "tp_sslSet", "listening", "tp_sslSetB", "tp_begin")
TTSStopSSLSetEnd(p) == PumpSetStateEnd(p, "tp_sslSetB", "listening", "tp_begin")

\* handleTTSMessage "stop", lines 638-641: BeginAudioStream; the handler returns
TTSStopBegin(p) == PumpCtrl(p, "tp_begin", StartSending(isSending, isReceiving), "select")
TTSStopBeginE(p) == PumpCtrl(p, "tp_beginE", StartSending(isSending, isReceiving), "select")

AbortStateKeepsSpeaking(st) == IF st = "speaking" THEN st ELSE "idle"

\* handleAbortMessage, line 728: the state an abort message forces, st being
\* the state before; msg["reason"] is only logged (lines 726-727)
AbortState(st) == "idle"

\* handleAbortMessage, lines 728-729: c.setState(DeviceStateIdle); return nil
AbortSetIdle(p) ==
    /\ SetStateBegin(p, "ab_set", AbortState(state), "ab_set", "select")
    /\ ret' = <<"abort", "ok">>
    /\ NoTx
    /\ UNCHANGED pumpFrame

\* ---- the client and its tasks

ConnectStep(c) ==
    \/ Connect(c) \/ ConnectDial(c) \/ ConnectDialFail(c) \/ ConnectHello(c)
    \/ ConnectHelloFailClose(c) \/ ConnectHelloFailSet(c) \/ ConnectSpawnPump(c)
    \/ ConnectSpawnSender(c) \/ ConnectSetIdle(c)

CallerStep(c) ==
    \/ ConnectStep(c)
    \/ StartListening(c) \/ StartListeningSend(c) \/ StartListeningSet(c)
    \/ StartListeningSetEnd(c)
    \/ StopListening(c) \/ StopListeningSend(c) \/ StopListeningSet(c)
    \/ BeginAudioStream(c) \/ EndAudioStream(c)
    \/ SendAudio(c) \/ SendAudioEnqueue(c)
    \/ GetStatus(c)
    \/ Close(c) \/ CloseStopCapture(c) \/ CloseTransport(c) \/ CloseWait(c)
    \/ CloseSetDisconnected(c)

PumpHandle(p) ==
    \/ PumpRecv(p) \/ PumpRecvInert(p) \/ PumpRecvHelloNoSid(p)
    \/ HelloSession(p) \/ HelloSSLRead1(p) \/ HelloSSLRead2(p) \/ HelloSSLSend(p)
    \/ HelloSSLSet(p) \/ HelloSSLSetEnd(p) \/ HelloBegin(p) \/ HelloBeginE(p)
    \/ HelloCapture(p)
    \/ TTSStartEnd(p) \/ TTSStartGet(p) \/ TTSStartSet1(p) \/ TTSStartSet1End(p)
    \/ TTSStartRecv(p) \/ TTSStartSet2(p) \/ TTSStartSet2End(p)
    \/ TTSStopRecv(p) \/ TTSStopSetIdle(p) \/ TTSStopSSLRead1(p) \/ TTSStopSSLRead2(p)
    \/ TTSStopSSLSend(p) \/ TTSStopSSLSet(p) \/ TTSStopSSLSetEnd(p) \/ TTSStopBegin(p)
    \/ TTSStopBeginE(p)
    \/ AbortSetIdle(p)
    \/ PumpRecvBinary(p) \/ BinaryCheck(p) \/ BinaryRecheck(p) \/ BinaryPlay(p)

PumpStep(p) ==
    \/ PumpClosed(p)
    \/ PumpHandle(p)

SenderStep(s) ==
    \/ SenderClosed(s) \/ SenderDequeue(s) \/ SenderCheck(s) \/ SenderSend(s)

Next ==
    \/ \E c \in Callers : CallerStep(c)
    \/ \E p \in Pumps : PumpStep(p)
    \/ \E s \in Senders : SenderStep(s)
    \/ CaptureExit

Spec == Init /\ [][Next]_vars

\* ---- connection loss

\* WSProtocol.readPump, lines 74-91: conn.ReadMessage fails because the
\* connection has ended; readPump returns and its deferred close(p.msgChan)
\* closes the receive queue
ConnLost ==
    /\ ~panicked
    /\ transport = "open"
    /\ transport' = "lost"
    /\ NoTx
    /\ NoRet
    /\ UNCHANGED <<flagVars, lockVars, sessionID, closeChan, panicked, audioVars, pc,
                   events, hpre, attempt, harnessVars, schedule, backoffVars,
                   sideVars>>

\* the transport's receive queue has been closed by readPump
MsgChanClosed == transport \in {"lost", "closed"}

\* messageHandler, lines 427-429: the receive on the closed queue yields the
\* zero Message at once, a text message with no payload
PumpRecvClosed(p) ==
    /\ At(p, "select")
    /\ MsgChanClosed
    /\ Goto(p, "zero")
    /\ NoTx
    /\ NoRet
    /\ UNCHANGED <<flagVars, lockVars, pumpFrame>>

\* messageHandler, lines 430-434: handleTextMessage returns for the zero
\* Message as for an empty message, and the loop goes round
PumpZeroHandled(p) ==
    /\ At(p, "zero")
    /\ ret' = <<"empty", HandleResult("empty")>>
    /\ Goto(p, "select")
    /\ NoTx
    /\ UNCHANGED <<flagVars, lockVars, pumpFrame>>

NextLoss ==
    \/ Next
    \/ ConnLost
    \/ \E p \in Pumps : PumpRecvClosed(p) \/ PumpZeroHandled(p)

\* every goroutine that can take a step eventually takes one, and a select
\* with a ready case that stays ready eventually picks it
Fairness ==
    /\ \A c \in Callers : WF_vars(CallerStep(c))
    /\ \A p \in Pumps : /\ WF_vars(PumpStep(p) \/ PumpRecvClosed(p) \/ PumpZeroHandled(p))
                        /\ WF_vars(PumpClosed(p))
    /\ \A s \in Senders : WF_vars(SenderStep(s)) /\ WF_vars(SenderClosed(s))
    /\ WF_vars(CaptureExit)

\* The client with a connection that may be lost, under fair scheduling.
SpecLoss == Init /\ [][NextLoss]_vars /\ Fairness

\* ---- the client with a recorder that delivers frames

NextCapture ==
    \/ Next
    \/ CaptureStep

\* The client under the solo schedule, its capture goroutines being handed
\* recorded frames. (In the other specifications the recorder is silent.)
SpecCapture == InitSolo /\ [][NextCapture]_vars

\* ---- audio streaming alone

StreamNext ==
    \E c \in Callers :
        \/ BeginAudioStream(c)
        \/ EndAudioStream(c)
        \/ SendAudio(c)
        \/ SendAudioEnqueue(c)

\* A client that is only asked to stream audio: nothing takes frames from
\* the queue, as before Connect has started the audio sender.
SpecStream == InitStream /\ [][StreamNext]_vars

\* The client under the serial schedule.
SpecSerial == InitSerial /\ [][Next]_vars

\* The client under the solo schedule.
SpecSolo == InitSolo /\ [][Next]_vars

\* ---- Connect called again on a live client

NextDuo ==
    \/ \E c \in Callers : ConnectStep(c)
    \/ \E p \in Pumps : PumpHandle(p)

\* The client under the duo schedule: Connect is the only method called, and
\* the inbound pumps handle what the server sends.
SpecDuo == InitDuo /\ [][NextDuo]_vars

\* ------------------------------------------------------------------ claims

\* a caller has run the body of method m and still holds the mutex
JustRan(c, m) == cpc[c] = "unlock" /\ cop[c] = m

\* C1: half-duplex invariant: under every interleaving of StartSending,
\* StopSending, StartReceiving and StopReceiving calls by concurrent callers,
\* isSending and isReceiving are never both true.
C1_HalfDuplex == ~(isSending /\ isReceiving)

\* C1 witness: one caller holds the send stream while another caller's
\* StartReceiving has just been refused.
C1_Witness ==
    /\ isSending
    /\ \E c \in CtrlCallers : JustRan(c, "StartReceiving") /\ cret[c] = FALSE
    /\ \E c \in CtrlCallers : cpc[c] = "idle" /\ cop[c] = "StartSending" /\ cret[c] = TRUE

\* C2: StartSending returns true and sets isSending exactly when isReceiving
\* was false at the call, otherwise returns false and leaves both flags as
\* they were; StartReceiving is symmetric; the opposite flag is never modified.
C2_StartContract ==
    \A c \in CtrlCallers :
        /\ JustRan(c, "StartSending") =>
            /\ cret[c] = ~cpre[c].r
            /\ isReceiving = cpre[c].r
            /\ isSending = (IF cpre[c].r THEN cpre[c].s ELSE TRUE)
        /\ JustRan(c, "StartReceiving") =>
            /\ cret[c] = ~cpre[c].s
            /\ isSending = cpre[c].s
            /\ isReceiving = (IF cpre[c].s THEN cpre[c].r ELSE TRUE)

\* C2 witness: a StartSending has been refused while receiving, and a
\* StartReceiving by another caller had been granted.
C2_Witness ==
    \E c, d \in CtrlCallers :
        /\ JustRan(c, "StartSending") /\ cret[c] = FALSE /\ cpre[c].r
        /\ cop[d] = "StartReceiving" /\ cret[d] = TRUE /\ cpc[d] = "idle"

\* C3: idempotent stop: StopSending (StopReceiving) run with its flag already
\* false changes neither flag; run with the flag true it clears only its own
\* flag; running it again on the result changes nothing.
C3_IdempotentStop ==
    \A c \in CtrlCallers :
        /\ JustRan(c, "StopSending") =>
            /\ isSending = FALSE
            /\ isReceiving = cpre[c].r
            /\ (~cpre[c].s => (isSending = cpre[c].s /\ isReceiving = cpre[c].r))
            /\ StopSending(isSending, isReceiving).s = isSending
            /\ StopSending(isSending, isReceiving).r = isReceiving
        /\ JustRan(c, "StopReceiving") =>
            /\ isReceiving = FALSE
            /\ isSending = cpre[c].s
            /\ (~cpre[c].r => (isSending = cpre[c].s /\ isReceiving = cpre[c].r))
            /\ StopReceiving(isSending, isReceiving).s = isSending
            /\ StopReceiving(isSending, isReceiving).r = isReceiving

\* C3 witness: a StopSending has run on an already-stopped send stream while
\* the receive stream was on.
C3_Witness ==
    \E c \in CtrlCallers :
        JustRan(c, "StopSending") /\ ~cpre[c].s /\ cpre[c].r /\ isReceiving

\* a step in which a caller enters method m: it either returns at once or
\* moves on to the position `next`
StartsCall(c, m, next) ==
    /\ pc[c] = "idle"
    /\ events' # events
    /\ \/ pc'[c] = next
       \/ pc'[c] = "idle" /\ ret'[1] = m

\* C4: state machine legality: every change of the client's DeviceState is one
\* of the transitions of the section 4.1 table: Unknown->Connecting,
\* Connecting->Idle, Connecting->Unknown, Idle->Listening, Listening->Idle,
\* Speaking->Idle, any->Speaking, any->Disconnected.
C4_Legality ==
    [][state' # state =>
        <<state, state'>> \in
            {<<"unknown", "connecting">>, <<"connecting", "idle">>,
             <<"connecting", "unknown">>, <<"idle", "listening">>,
             <<"listening", "idle">>, <<"speaking", "idle">>}
            \cup {<<s, "speaking">> : s \in DeviceStates}
            \cup {<<s, "disconnected">> : s \in DeviceStates}]_vars

\* C5: an illegal local request is rejected without effect: StopListening
\* called when the state is not Listening, and StartListening called when the
\* state is not Idle, return an error in that step, hand nothing to the
\* transport, and leave the state and both stream flags unchanged.
C5_IllegalRequestRejected ==
    [][\A c \in Callers :
        /\ (StartsCall(c, "StopListening", "TL_send") /\ state # "listening") =>
              /\ ret' = <<"StopListening", "err">>
              /\ pc'[c] = "idle"
              /\ tx' = <<"none", 0>>
              /\ UNCHANGED <<state, isSending, isReceiving>>
        /\ (StartsCall(c, "StartListening", "SL_send") /\ state # "idle") =>
              /\ ret' = <<"StartListening", "err">>
              /\ pc'[c] = "idle"
              /\ tx' = <<"none", 0>>
              /\ UNCHANGED <<state, isSending, isReceiving>>]_vars

\* C5 witness: on a connected, idle client a StopListening call has just been
\* rejected.
C5_Witness ==
    /\ ret = <<"StopListening", "err">>
    /\ state = "idle"
    /\ transport = "open"
    /\ \E p \in Pumps : pc[p] = "select"

\* C6: a Connect call made while the state is not Unknown fails with an error,
\* leaves the state unchanged and starts no task.
C6_ConnectOnlyFromUnknown ==
    [][\A c \in Callers :
        (StartsCall(c, "Connect", "K_dial") /\ state # "unknown") =>
            /\ ret' = <<"Connect", "err">>
            /\ pc'[c] = "idle"
            /\ state' = state]_vars

\* C7: Disconnected is terminal: once the state is Disconnected no later step
\* changes it.
C7_DisconnectedTerminal == [][state = "disconnected" => state' = "disconnected"]_vars

\* C8: when the controller refuses the send stream because isReceiving is
\* true, StartListening returns an error and the state stays as it was; the
\* state does not become Listening with isSending false.
C8_ListenNeedsSendStream ==
    [][\A c \in Callers :
        (pc[c] = "SL_set" /\ pc'[c] # "SL_set" /\ state # "listening" /\ isReceiving) =>
            /\ ret' = <<"StartListening", "err">>
            /\ pc'[c] = "idle"
            /\ state' = state
            /\ ~stateLocked']_vars

\* C9: in every reachable state, state = Speaking implies isSending = false.
C9_SpeakingNotSending == state = "speaking" => ~isSending

\* C10: the send pump hands a binary frame to Transport.Send only at an
\* instant when isSending is true and isReceiving is false.
C10_SendOnlyWhileSending == tx[1] = "audio" => (isSending /\ ~isReceiving)

\* a step in which pump p leaves the handler position `last` and is back at
\* the select of messageHandler
EndsHandler(p, last) == pc[p] = last /\ pc'[p] = "select"

\* C11: scenario A: when the handling of a hello response carrying a
\* session_id ends, sessionID is that id, the state is Listening, isSending is
\* true and a capture task has been launched, whatever the interleaving of the
\* inbound pump with the Connect call that started it (no other call has been
\* made and no other message received: events = 2; SendStartListening has
\* returned no error).
C11_ScenarioA ==
    [][\A p \in Pumps :
        ((EndsHandler(p, "h_begin") \/ EndsHandler(p, "h_capture")) /\ events = 2) =>
            /\ sessionID' \in SessionIds
            /\ state' = "listening"
            /\ isSending'
            /\ nCapture' = nCapture + 1]_vars

\* C12: scenario B: under the serial schedule, when the handling of a tts
\* start message taken while the state was Listening ends, isSending is false,
\* the state is Speaking and isReceiving is true.
C12_ScenarioB ==
    [][\A p \in Pumps :
        (/\ serial
         /\ hpre[p] = "listening"
         /\ \/ EndsHandler(p, "ts_recv")
            \/ EndsHandler(p, "ts_set2")
            \/ EndsHandler(p, "ts_set2B")) =>
            /\ ~isSending'
            /\ state' = "speaking"
            /\ isReceiving']_vars

\* C12 witness: a pump that took its last message in Listening is back at its
\* select with the receive stream on, the send stream off and the state Speaking.
C12_Witness ==
    /\ serial
    /\ \E p \in Pumps : hpre[p] = "listening" /\ pc[p] = "select"
    /\ state = "speaking"
    /\ isReceiving
    /\ ~isSending

\* C13 as stated: scenario C: under the serial schedule, in the handling of a
\* tts stop message taken while the state was Speaking, the receive stream is
\* stopped before the state becomes Idle, and the handler ends with the state
\* Listening and isSending true.
C13_ScenarioC_Stated ==
    [][\A p \in Pumps :
        (serial /\ hpre[p] = "speaking") =>
            /\ (pc[p] = "tp_setIdle" /\ pc'[p] # "tp_setIdle") =>
                  (~isReceiving /\ state' = "idle")
            /\ (EndsHandler(p, "tp_begin") \/ EndsHandler(p, "tp_beginE")) =>
                  (state' = "listening" /\ isSending' /\ ~isReceiving')]_vars

\* C13 amended: as stated when SendStartListening returns no error; when it
\* returns an error (the listen start message could not be sent) the handler
\* ends with the state Idle and isSending true.
C13_ScenarioC ==
    [][\A p \in Pumps :
        (serial /\ hpre[p] = "speaking") =>
            /\ (pc[p] = "tp_setIdle" /\ pc'[p] # "tp_setIdle") =>
                  (~isReceiving /\ state' = "idle")
            /\ EndsHandler(p, "tp_begin") =>
                  (state' = "listening" /\ isSending' /\ ~isReceiving')
            /\ EndsHandler(p, "tp_beginE") =>
                  (state' = "idle" /\ isSending' /\ ~isReceiving')]_vars

\* C13 witness: a pump that took its last message in Speaking is back at its
\* select with the state Listening, the send stream on and the receive stream off.
C13_Witness ==
    /\ serial
    /\ \E p \in Pumps : hpre[p] = "speaking" /\ pc[p] = "select"
    /\ state = "listening"
    /\ isSending
    /\ ~isReceiving

\* the step changes neither the state, the session id nor a stream flag, and
\* every pump waiting for a message is still waiting for the next one
NoEffect ==
    /\ UNCHANGED <<state, sessionID, isSending, isReceiving>>
    /\ ~panicked'
    /\ \A p \in Pumps : pc[p] = "select" => pc'[p] = "select"

\* C14: dispatcher robustness: a text message of a recognized type that lacks
\* a field required for that type (hello without session_id; listen or tts
\* without state; stt, llm or error without a required field) yields an error
\* that is logged, changes no state, and the inbound pump neither crashes nor
\* exits but waits for the next message.
C14_DispatcherRobust ==
    [][ret'[1] \in {"missing_field", "hello_no_sid"} =>
        (ret'[2] = "err" /\ NoEffect)]_vars

\* C15: scenario E: handling a JSON object without a string type field
\* returns without error and leaves the state, sessionID and both stream flags
\* unchanged.
C15_ScenarioE ==
    [][ret'[1] = "no_type" => (ret'[2] = "ok" /\ NoEffect)]_vars

\* C16: a text message whose type is not one of hello, listen, tts, stt, llm,
\* abort, error is ignored: handling it returns no error, leaves the state,
\* sessionID and both stream flags unchanged, and the inbound pump continues.
C16_UnknownTypeIgnored ==
    [][ret'[1] = "unknown_type" => (ret'[2] = "ok" /\ NoEffect)]_vars

\* C16 witness: a message of an unknown type has just been handled by a
\* client that is listening.
C16_Witness ==
    /\ ret = <<"unknown_type", "ok">>
    /\ state = "listening"
    /\ isSending
    /\ \E p \in Pumps : pc[p] = "select"

\* C17: an inbound text message with a zero-length payload is a no-op: it
\* returns no error and changes neither the state, the sessionID nor the
\* stream flags.
C17_EmptyPayloadNoOp ==
    [][ret'[1] = "empty" => (ret'[2] = "ok" /\ NoEffect)]_vars

\* C17 witness: a zero-length message has just been handled by a client that
\* is speaking.
C17_Witness ==
    /\ ret = <<"empty", "ok">>
    /\ state = "speaking"
    /\ isReceiving
    /\ \E p \in Pumps : pc[p] = "select"

Min(a, b) == IF a < b THEN a ELSE b

\* the NextDelay returns before the first Reset
FirstRun ==
    LET n == IF \E i \in 1..Len(delays) : delays[i] = 0
               THEN (CHOOSE i \in 1..Len(delays) :
                        delays[i] = 0 /\ \A j \in 1..(i - 1) : delays[j] # 0) - 1
               ELSE Len(delays)
    IN  SubSeq(delays, 1, n)

\* C18: backoff monotonicity: consecutive NextDelay calls without a reset
\* return a non-decreasing sequence that starts at the floor, in which each
\* value is min(2 x previous, ceiling), no value exceeds the ceiling, and once
\* the ceiling is reached every further call returns the ceiling.
C18_BackoffMonotone ==
    LET r == FirstRun IN
    /\ Len(r) > 0 => r[1] = BackoffFloor
    /\ \A i \in 1..Len(r) : r[i] <= BackoffCeiling
    /\ \A i \in 1..(Len(r) - 1) :
        /\ r[i + 1] = Min(2 * r[i], BackoffCeiling)
        /\ r[i] <= r[i + 1]
        /\ r[i] = BackoffCeiling => r[i + 1] = BackoffCeiling

\* C18 witness: a run without reset has reached the ceiling and returned it
\* again on the next call.
C18_Witness ==
    /\ \A i \in 1..Len(delays) : delays[i] # 0
    /\ \E i \in 2..(Len(delays) - 1) :
        /\ delays[i - 1] < BackoffCeiling
        /\ delays[i] = BackoffCeiling
        /\ delays[i + 1] = BackoffCeiling

\* C19: after any number of NextDelay calls a single Reset restores the floor
\* exactly: the current delay is the floor, the next NextDelay call returns
\* the floor and the doubling restarts from there.
C19_ResetRestoresFloor ==
    /\ (Len(delays) > 0 /\ delays[Len(delays)] = 0) => currentDelay = BackoffFloor
    /\ \A i \in 1..(Len(delays) - 1) :
        (delays[i] = 0 /\ delays[i + 1] # 0) =>
            /\ delays[i + 1] = BackoffFloor
            /\ (i + 2 <= Len(delays) /\ delays[i + 2] # 0) =>
                  delays[i + 2] = Min(2 * BackoffFloor, BackoffCeiling)

\* C19 witness: the policy had reached the ceiling, was reset once, and its
\* next two NextDelay calls returned the floor and twice the floor.
C19_Witness ==
    \E i \in 2..(Len(delays) - 2) :
        /\ delays[i - 1] = BackoffCeiling
        /\ delays[i] = 0
        /\ delays[i + 1] = BackoffFloor
        /\ delays[i + 2] = 2 * BackoffFloor

C21_ConnectSuccess ==
    [][/\ (state = "connecting" /\ state' = "idle") =>
            \E c \in Callers : attempt[c].dials = 1 /\ attempt[c].hello = 1
       /\ \A c \in Callers :
            (pc[c] = "K_setIdle" /\ pc'[c] = "idle") =>
                ret' = <<"Connect", "ok">> /\ attempt[c].tasks = 2]_vars

\* C22: Close closes the transport, and writes the state Disconnected, only
\* when the inbound pump, the audio sender and every capture goroutine have
\* returned.
C22_CloseOrdering ==
    [][\A c \in Callers :
        \/ pc[c] = "X_transport" /\ transport' = "closed"
        \/ pc[c] = "X_set" /\ state' = "disconnected"
        => WgPending = {} /\ nCapture = 0]_vars

\* C23: when a Close call returns, with or without an error, the state is
\* Disconnected and the inbound pump and the audio sender have returned.
C23_CloseCompletes ==
    ret[1] = "Close" => state = "disconnected" /\ WgPending = {}

\* C24: sessionID is the empty string as long as no inbound pump has been
\* started (no hello response can have been handled), and it is the empty
\* string whenever the state is Disconnected.
C24_SessionIdLifecycle ==
    /\ (\A p \in Pumps : pc[p] = "unborn") => sessionID = ""
    /\ state = "disconnected" => sessionID = ""

\* C25: once the connection has ended and the receive queue is closed, a
\* running inbound pump eventually returns, and the state eventually becomes
\* Disconnected (a process that a panic has ended is left aside).
C25_ConnectionLoss ==
    \A p \in Pumps :
        /\ (transport = "lost" /\ pc[p] \notin {"unborn", "done"})
              ~> (pc[p] = "done" \/ panicked)
        /\ (transport = "lost" /\ pc[p] \notin {"unborn", "done"})
              ~> (state = "disconnected" \/ panicked)

\* C26: audioSendChan never holds more than 100 frames; SendAudio is never
\* blocked at its enqueue, and an enqueue attempted on the full queue returns
\* at once with an error, the frame dropped and the queue left as it was.
C26_SendQueueBackpressure ==
    [][/\ Len(audioSendChan') <= AudioSendChanCap
       /\ \A c \in Callers :
            pc[c] = "SA_enqueue" =>
                /\ ENABLED SendAudioEnqueue(c)
                /\ (pc'[c] # pc[c] /\ Len(audioSendChan) = AudioSendChanCap) =>
                        /\ pc'[c] = "idle"
                        /\ ret' = <<"SendAudio", "err">>
                        /\ audioSendChan' = audioSendChan
                        /\ frames' = frames]_vars

\* C26 witness: the queue holds 100 frames, the send stream is on, and a
\* SendAudio call has just returned its error for the 101st frame.
C26_Witness ==
    /\ Len(audioSendChan) = AudioSendChanCap
    /\ isSending
    /\ ret = <<"SendAudio", "err">>

\* C28: a capture goroutine puts a frame on audioSendChan only in a step taken
\* while the state is Listening and isSending is true.
C28_CaptureGating ==
    [][(capAt'["c_enqueue"] < capAt["c_enqueue"] /\ audioSendChan' # audioSendChan) =>
            state = "listening" /\ isSending]_vars

\* C27: at any time at most one capture goroutine (the producer of
\* audioSendChan) and at most one audio sender (its consumer) are running.
C27_SingleProducerConsumer ==
    /\ nCapture <= 1
    /\ Cardinality({s \in Senders : pc[s] \notin {"unborn", "done"}}) <= 1

\* C29: the inbound pump and the audio sender return only once closeChan has
\* been closed.
C29_TaskLifetime ==
    [][\A t \in Pumps \cup Senders :
        (pc[t] # "done" /\ pc'[t] = "done") => closeChan = "closed"]_vars

\* C30: the state a transition overwrites is the source state it checked:
\* Idle for StartListening, Listening for StopListening and for the tts start
\* handler's first setState, Idle or Connecting for SendStartListening.
C30_TransitionsSerialized ==
    [][/\ \A c \in Callers :
            /\ (pc[c] = "SL_set" /\ pc'[c] = "SL_setB") => state = "idle"
            /\ (pc[c] = "TL_set" /\ state' # state) => state = "listening"
       /\ \A p \in Pumps :
            /\ (pc[p] \in {"h_sslSet", "tp_sslSet"} /\ pc'[p] \in {"h_sslSetB", "tp_sslSetB"})
                    => state \in {"idle", "connecting"}
            /\ (pc[p] = "ts_set1" /\ pc'[p] = "ts_set1B") => state = "listening"]_vars

\* C31: once the connection has ended or the transport has been closed,
\* readPump eventually returns and msgChan is closed, and msgChan is never
\* closed twice.
C31_ReceiveQueueClosure ==
    /\ [](ws.msgChanCloses <= 1)
    /\ (ws.readPump # "none" /\ ws.conn \in {"ended", "closed"})
            ~> (ws.readPump = "done" /\ ws.msgChanCloses = 1)

\* C32: when the handler of an abort message returns, the state is Idle,
\* whatever it was before, and the handler returns nil.
C32_AbortForcesIdle ==
    [][\A p \in Pumps :
        (pc[p] = "ab_set" /\ pc'[p] = "select") =>
            state' = "idle" /\ ret' = <<"abort", "ok">>]_vars

\* C32 witness: an abort message has just been handled after a tts start
\* (the receive stream is still on): the state is Idle.
C32_Witness ==
    /\ ret = <<"abort", "ok">>
    /\ isReceiving
    /\ state = "idle"

\* C33: handling an error message that has its message and session_id returns
\* an error, changes neither the state, the sessionID nor a stream flag, and
\* leaves the inbound pump waiting for the next message.
C33_SessionErrorSurfaced ==
    [][ret'[1] = "error" => (ret'[2] = "err" /\ NoEffect)]_vars

\* C33 witness: an error message has just been handled by a client that is
\* listening, and its pump waits for the next message.
C33_Witness ==
    /\ ret = <<"error", "err">>
    /\ state = "listening"
    /\ sessionID # ""
    /\ \E p \in Pumps : pc[p] = "select"

\* C34: an inbound binary frame is decoded and handed to the Player only when
\* isReceiving is true; a frame that meets isReceiving false is discarded:
\* the handler returns no error and nothing changes
C34_BinaryGating ==
    [][/\ (ret'[1] = "audio" /\ ret'[2] # "decode_err") => isReceiving
       /\ \A p \in Pumps :
            (pc[p] = "b_check" /\ pc'[p] = "select")
                => (ret' = <<"binary", "ok">> /\ NoEffect)]_vars

\* C35: in every reachable state isReceiving = TRUE implies that the state is
\* Speaking: the receive stream is never left on once the state has left
\* Speaking
C35_ReceivingImpliesSpeaking == isReceiving => state = "speaking"

\* C36: GetStatus reports the connection status "connected" only while a
\* transport connection is open; before Connect, after a failed Connect and
\* after Close it reports "disconnected"
C36_StatusTruthful ==
    (ret[1] = "GetStatus" /\ ret[2] = "connected") => transport = "open"

\* C37: stateMutex and the controller's mu are always taken in the same
\* order: no goroutine that holds mu takes stateMutex, so no goroutine waits
\* for itself through these two locks, and some goroutine inside an operation
\* can always take its next step
C37_LockOrder ==
    /\ \A t \in LockTasks : Holds(t, "mu") => Wants(t) \notin {"W", "R"}
    /\ \A t \in LockTasks : ~InWaitCycle(t)
    /\ (\E t \in LockTasks : lk[t].op # "none")
         => \E t \in LockTasks : ENABLED (LockAcquire(t) \/ LockRelease(t))

\* a goroutine inside setState holds stateMutex and waits for mu, which a
\* controller method called by another goroutine holds, while a third
\* goroutine waits in GetState for stateMutex
C37_Witness ==
    \E t, u, v \in LockTasks :
        /\ Holds(t, "W") /\ Wants(t) = "mu"
        /\ Holds(u, "mu") /\ lk[u].op = "controller"
        /\ Wants(v) = "R" /\ WaitsFor(v, t)

====
